---- MODULE Spec2Model ----
(***************************************************************************)
(* MedicalExamVerifierTool.execute (src/index.js) as a state machine.      *)
(*                                                                         *)
(* JavaScript runs execute on one thread: a call runs from line 51 to its  *)
(* first await (line 68) or to a return/throw without interleaving, and    *)
(* the continuation after the await (lines 70-81) runs as one step when    *)
(* the 1500 ms timer fires.  Timers armed with the same delay fire in the  *)
(* order they were armed, so the pending timers form a FIFO queue.         *)
(*                                                                         *)
(* Several invocations (one per POST /mcp request) may be suspended at the *)
(* await at the same time.  Invocations are numbered in arrival order.     *)
(***************************************************************************)
EXTENDS Integers, Sequences, FiniteSets

\* ------------------------------------------------------------------ bounds

\* Number of invocations of execute in one run of the server.
NumInv == 2

\* Math.random() is modelled on a grid of 2*HalfSteps points of [0,1).
HalfSteps == 2

\* Longest backend message content, in tokens (real implementation block).
MaxContentLen == 3

Inv == 1..NumInv

\* Probabilities are numerators over ProbDen: p = n / ProbDen.
ProbDen == 2 * HalfSteps

\* ------------------------------------------------------- JavaScript values

Undefined == [t |-> "undef", v |-> "undefined"]
Str(s) == [t |-> "str", v |-> s]
\* A number, carried with its decimal rendering.
Num(s) == [t |-> "num", v |-> s]

\* JavaScript truthiness (the operand of ! on line 54).
Truthy(x) ==
  CASE x.t = "undef" -> FALSE
    [] x.t = "str" -> x.v # ""
    [] x.t = "num" -> x.v # "0"
    [] OTHER -> TRUE

\* String conversion inside a template literal (lines 63, 72).
TemplateString(x) == x.v

\* file.data as a client may send it: absent, "", base64 text, or a number.
DataVals == {Undefined, Str(""), Str("QUJD"), Num("7")}

\* inputs.file: absent, or an object with a data field.
FileVals == {Undefined} \cup {[t |-> "obj", v |-> "[object Object]", data |-> d] : d \in DataVals}

\* inputs.examType: absent, "", a label, or a (truthy) number.
ExamTypeVals == {Undefined, Str(""), Str("x-ray"), Str("blood test report"), Num("7")}

\* The inputs argument of execute: absent, or an object {file, examType}.
NoInputs == [t |-> "undef", v |-> "undefined", file |-> Undefined, examType |-> Undefined]
InputVals ==
  {NoInputs} \cup
  {[t |-> "obj", v |-> "[object Object]", file |-> f, examType |-> e] :
     f \in FileVals, e \in ExamTypeVals}

\* ------------------------------------------------------------ pure helpers

\* Line 52: destructuring an absent inputs throws a TypeError.
DestructureThrows(inp) == inp.t # "obj"

\* file.data of a file that may be absent (read only where file is truthy).
DataOf(f) == IF f.t = "obj" THEN f.data ELSE Undefined

\* Mutant: the exam-type operand of the input check is left out.
MissingIgnoresExamType(inp) ==
  \/ ~Truthy(inp.file)
  \/ ~Truthy(DataOf(inp.file))

\* Line 54: !file || !file.data || !examType.
Missing(inp) ==
  \/ ~Truthy(inp.file)
  \/ ~Truthy(DataOf(inp.file))
  \/ ~Truthy(inp.examType)

\* Line 62: Buffer.from(x, 'base64') accepts a string (or a buffer/array) and
\* throws a TypeError for any other primitive such as a number.
BufferFromThrows(d) == d.t # "str"

\* Line 62-63: length of the decoded buffer, 3 bytes per 4 base64 characters.
ByteLength(d) == (Len(d.v) * 3) \div 4

Digits == <<"0", "1", "2", "3", "4", "5", "6", "7", "8", "9">>
ToDecimal(n) == IF n < 10 THEN Digits[n + 1] ELSE Digits[(n \div 10) + 1] \o Digits[(n % 10) + 1]

\* Mutant: the random draw is scaled as a percentage, leaving [0,1].
MathRandomPercent == 0..(2 * ProbDen)

\* Line 70: Math.random() returns a value in [0,1): numerators 0..ProbDen-1.
MathRandom == 0..(ProbDen - 1)

\* Mutant: the threshold comparison is >= instead of >.
IsVerifiedAtLeast(p) == 2 * p >= ProbDen

\* Line 71: randomProbability > 0.5.
IsVerified(p) == 2 * p > ProbDen

\* Line 72: the mock reasoning template.
MockReasoning(isVerified, examType) ==
  "This is a mock response. The analysis was simulated. The file appears "
    \o (IF isVerified THEN "to be" ELSE "not to be")
    \o " a valid '" \o TemplateString(examType) \o "' document."

\* Lines 70-78: the fabricated verdict for a drawn probability.
MockResult(p, examType) ==
  [probability |-> p,
   is_verified |-> IsVerified(p),
   reasoning |-> MockReasoning(IsVerified(p), examType)]

\* Mutant: the missing-input result carries no explanation.
MissingResultNoReasoning ==
  [probability |-> 0, is_verified |-> FALSE, reasoning |-> ""]

\* Lines 55-59: the result returned for missing input.
MissingResult ==
  [probability |-> 0,
   is_verified |-> FALSE,
   reasoning |-> "Error: Missing file data or exam type in the input."]

NoResult == [probability |-> 0 - 1, is_verified |-> FALSE, reasoning |-> ""]

\* ------------------------------------------- events the caller can observe

\* The promise returned by execute is fulfilled with a result object ...
End(result) == [kind |-> "end", result |-> result, error |-> "", msg |-> ""]
\* ... or rejected with an exception.
Error(name) == [kind |-> "error", result |-> NoResult, error |-> name, msg |-> ""]
\* A progress notification sent through the invocation's context.
Progress(m) == [kind |-> "progress", result |-> NoResult, error |-> "", msg |-> m]

IsTerminal(e) == e.kind \in {"end", "error"}

\* ------------------------------- the real implementation block (lines 83-140)
\* The block is shipped commented out, to be swapped in for the mock block
\* ("uncomment this block and remove the mock implementation above").  It is
\* modelled as written, as the second implementation of the backend step.

\* Message content is a sequence of tokens:
\*   "fo"  the opening fence  ```json\n        "fc"  the closing fence  \n```
\*   "sp"  white space        "obj" the text of one JSON object
\*   "txt" prose that is no JSON
Tokens == {"fo", "fc", "sp", "obj", "txt"}
Contents == UNION {[1..n -> Tokens] : n \in 0..MaxContentLen}

\* The object that the text "obj" denotes.
ModelVerdict ==
  [probability |-> ProbDen - 1, is_verified |-> TRUE, reasoning |-> "Matches the exam type."]

\* message.content: null, or a string.
NullContent == [t |-> "null", toks |-> <<>>]
ContentVals == {NullContent} \cup {[t |-> "str", toks |-> c] : c \in Contents}

\* The parsed body of a 2xx response: no JSON at all, JSON with an empty
\* choices array, or JSON with one choice carrying a message content.
NotJsonBody == [t |-> "notjson", choices |-> <<>>]
BodyVals ==
  {NotJsonBody, [t |-> "json", choices |-> <<>>]}
    \cup {[t |-> "json", choices |-> <<c>>] : c \in ContentVals}

\* What fetch settles with: a rejection (network failure), a non-2xx
\* response, or a 2xx response with a body.
NoResponse == [t |-> "none", ok |-> FALSE, status |-> "", text |-> "", body |-> NotJsonBody]
ResponseVals ==
  {[t |-> "neterr", ok |-> FALSE, status |-> "", text |-> "", body |-> NotJsonBody],
   [t |-> "http", ok |-> FALSE, status |-> "500", text |-> "upstream error", body |-> NotJsonBody]}
    \cup {[t |-> "http", ok |-> TRUE, status |-> "200", text |-> "", body |-> b] : b \in BodyVals}

\* Mutant: the fences are left in the content.
KeepFences(toks) == toks

\* Line 126: content.replace(/```json\n|\n```/g, '') removes every fence.
StripFences(toks) ==
  LET notFence(x) == x \notin {"fo", "fc"} IN SelectSeq(toks, notFence)

\* Line 126: .trim() removes leading and trailing white space.
RECURSIVE TrimLeft(_)
TrimLeft(toks) ==
  IF toks # <<>> /\ Head(toks) = "sp" THEN TrimLeft(Tail(toks)) ELSE toks

RECURSIVE TrimRight(_)
TrimRight(toks) ==
  IF toks # <<>> /\ toks[Len(toks)] = "sp"
  THEN TrimRight(SubSeq(toks, 1, Len(toks) - 1)) ELSE toks

Trim(toks) == TrimRight(TrimLeft(toks))

\* Line 127: JSON.parse accepts one value with white space around it.
JSONParses(toks) ==
  LET notSpace(x) == x # "sp" IN SelectSeq(toks, notSpace) = <<"obj">>

\* Line 127: the message of the SyntaxError JSON.parse throws.
JSONParseMessage(toks) ==
  IF toks = <<>> THEN "Unexpected end of JSON input" ELSE "Unexpected token in JSON"

\* Lines 134-138: the result returned from the catch block.
CatchResult(message) ==
  [probability |-> 0,
   is_verified |-> FALSE,
   reasoning |-> "An error occurred during analysis: " \o message]

\* Lines 122-127: what the body of a 2xx response leads to: parsed (the value
\* returned on line 130) or thrown (the message of the exception caught on
\* line 132).
ParseBody(body) ==
  IF body.t = "notjson" THEN
    [thrown |-> TRUE, message |-> "Unexpected token in JSON", value |-> NoResult]
  ELSE IF body.choices = <<>> THEN
    [thrown |-> TRUE,
     message |-> "Cannot read properties of undefined (reading 'message')",
     value |-> NoResult]
  ELSE IF body.choices[1].t = "null" THEN
    [thrown |-> TRUE,
     message |-> "Cannot read properties of null (reading 'replace')",
     value |-> NoResult]
  ELSE
    LET jsonString == Trim(StripFences(body.choices[1].toks))
    IN IF JSONParses(jsonString)
       THEN [thrown |-> FALSE, message |-> "", value |-> ModelVerdict]
       ELSE [thrown |-> TRUE, message |-> JSONParseMessage(jsonString), value |-> NoResult]

\* ------------------------------------------------------------------- state

VARIABLES
  pc,            \* per invocation: "idle", "delay" (suspended at line 68), "done"
  inputs,        \* per invocation: the inputs argument (the closure's file, examType)
  timers,        \* pending setTimeout callbacks, in the order they were armed
  channel,       \* per invocation: the events its caller has observed
  console,       \* the process's console output, in order
  backendCalls,  \* per invocation: how often the analysis step was started
  fabricated,    \* per invocation: how many verdicts were fabricated
  medicalTool,   \* the one tool instance registered with the server
  response       \* per invocation: the HTTP response held between awaits

vars == <<pc, inputs, timers, channel, console, backendCalls, fabricated, medicalTool, response>>

\* Lines 18-21, 145: the tool instance shared by all requests.
ToolConfig ==
  [name |-> "medical_exam_verifier",
   description |-> "Verifies if a file is a specific type of medical exam"]

Init ==
  /\ pc = [i \in Inv |-> "idle"]
  /\ inputs = [i \in Inv |-> NoInputs]
  /\ timers = <<>>
  /\ channel = [i \in Inv |-> <<>>]
  /\ console = <<>>
  /\ backendCalls = [i \in Inv |-> 0]
  /\ fabricated = [i \in Inv |-> 0]
  /\ medicalTool = ToolConfig
  /\ response = [i \in Inv |-> NoResponse]

\* Mutant: the message is sent to the caller as a progress notification.
ContextProgress(st, i, line, text) ==
  [st EXCEPT !.channel = [@ EXCEPT ![i] = Append(@, Progress(text))]]

\* console.log (lines 51, 63, 67, 80): one more line on the process console;
\* nothing is sent to the caller.  st holds the console and the channels.
ConsoleLog(st, i, line, text) ==
  [st EXCEPT !.console = Append(@, [inv |-> i, line |-> line, text |-> text])]

\* The invocation that arrives next: invocations are numbered as they arrive.
NextInvocation == CHOOSE i \in Inv : pc[i] = "idle" /\ \A j \in Inv : j < i => pc[j] # "idle"

\* Mutant: a repeating timer (setInterval) stays armed after it fires.
TimersAfterFireInterval(q) == Append(Tail(q), Head(q))

\* Line 68: setTimeout is one-shot; a fired timer is gone.
TimersAfterFire(q) == Tail(q)

\* Lines 50-68: a call of execute, up to its return, throw or first await.
Execute(i, inp) ==
  /\ pc[i] = "idle"
  /\ i = NextInvocation
  /\ inputs' = [inputs EXCEPT ![i] = inp]
  /\ LET st0 == [console |-> console, channel |-> channel]
         st1 == ConsoleLog(st0, i, 51, "Executing tool with inputs:")
     IN
       IF DestructureThrows(inp) THEN
         \* line 52 throws: the promise is rejected
         /\ console' = st1.console
         /\ channel' = [st1.channel EXCEPT ![i] = Append(@, Error("TypeError"))]
         /\ pc' = [pc EXCEPT ![i] = "done"]
         /\ UNCHANGED <<timers, backendCalls>>
       ELSE IF Missing(inp) THEN
         \* lines 54-60
         /\ console' = st1.console
         /\ channel' = [st1.channel EXCEPT ![i] = Append(@, End(MissingResult))]
         /\ pc' = [pc EXCEPT ![i] = "done"]
         /\ UNCHANGED <<timers, backendCalls>>
       ELSE IF BufferFromThrows(inp.file.data) THEN
         \* line 62 throws: the promise is rejected
         /\ console' = st1.console
         /\ channel' = [st1.channel EXCEPT ![i] = Append(@, Error("TypeError"))]
         /\ pc' = [pc EXCEPT ![i] = "done"]
         /\ UNCHANGED <<timers, backendCalls>>
       ELSE
         \* lines 62-68: log, then suspend on the timer
         LET st2 == ConsoleLog(st1, i, 63,
                      "Received file of size " \o ToDecimal(ByteLength(inp.file.data))
                        \o " bytes for exam type: " \o TemplateString(inp.examType))
             st3 == ConsoleLog(st2, i, 67, "Using mock implementation. Simulating analysis...")
         IN /\ console' = st3.console
            /\ channel' = st3.channel
            /\ timers' = Append(timers, i)
            /\ backendCalls' = [backendCalls EXCEPT ![i] = @ + 1]
            /\ pc' = [pc EXCEPT ![i] = "delay"]
  /\ UNCHANGED <<fabricated, medicalTool, response>>

\* Mutant: examType lives in one module-level variable, overwritten by the
\* call that suspended last.
SharedExamType(i) ==
  IF timers # <<>> THEN inputs[timers[Len(timers)]].examType ELSE inputs[i].examType

\* Lines 52, 72: examType is a local of the call, captured by its continuation.
CapturedExamType(i) == inputs[i].examType

\* Lines 68-81: the timer fires and the continuation runs to its return.
TimerFires(p) ==
  /\ timers # <<>>
  /\ LET i == Head(timers)
         result == MockResult(p, CapturedExamType(i))
         st0 == [console |-> console, channel |-> channel]
         st1 == ConsoleLog(st0, i, 80, "Mock result:")
     IN /\ timers' = TimersAfterFire(timers)
        /\ fabricated' = [fabricated EXCEPT ![i] = @ + 1]
        /\ console' = st1.console
        /\ channel' = [st1.channel EXCEPT ![i] = Append(@, End(result))]
        /\ pc' = [pc EXCEPT ![i] = "done"]
  /\ UNCHANGED <<inputs, backendCalls, medicalTool, response>>

Next ==
  \/ \E i \in Inv, inp \in InputVals : Execute(i, inp)
  \/ \E p \in MathRandom : TimerFires(p)

Spec == Init /\ [][Next]_vars

\* An armed timer fires after its 1500 ms: the event loop does not starve it.
FairSpec == Spec /\ WF_vars(\E p \in MathRandom : TimerFires(p))

\* Lines 50-63, 87-115: a call of execute with the real block in place of the
\* mock block, up to its return, throw or the await of fetch.
ExecuteReal(i, inp) ==
  /\ pc[i] = "idle"
  /\ i = NextInvocation
  /\ inputs' = [inputs EXCEPT ![i] = inp]
  /\ LET st0 == [console |-> console, channel |-> channel]
         st1 == ConsoleLog(st0, i, 51, "Executing tool with inputs:")
     IN
       IF DestructureThrows(inp) THEN
         /\ console' = st1.console
         /\ channel' = [st1.channel EXCEPT ![i] = Append(@, Error("TypeError"))]
         /\ pc' = [pc EXCEPT ![i] = "done"]
         /\ UNCHANGED backendCalls
       ELSE IF Missing(inp) THEN
         /\ console' = st1.console
         /\ channel' = [st1.channel EXCEPT ![i] = Append(@, End(MissingResult))]
         /\ pc' = [pc EXCEPT ![i] = "done"]
         /\ UNCHANGED backendCalls
       ELSE IF BufferFromThrows(inp.file.data) THEN
         /\ console' = st1.console
         /\ channel' = [st1.channel EXCEPT ![i] = Append(@, Error("TypeError"))]
         /\ pc' = [pc EXCEPT ![i] = "done"]
         /\ UNCHANGED backendCalls
       ELSE
         LET st2 == ConsoleLog(st1, i, 63,
                      "Received file of size " \o ToDecimal(ByteLength(inp.file.data))
                        \o " bytes for exam type: " \o TemplateString(inp.examType))
         IN /\ console' = st2.console
            /\ channel' = st2.channel
            /\ backendCalls' = [backendCalls EXCEPT ![i] = @ + 1]
            /\ pc' = [pc EXCEPT ![i] = "fetch"]
  /\ UNCHANGED <<timers, fabricated, medicalTool, response>>

\* Lines 132-139: the catch block logs the exception and returns a result.
Catch(i, message) ==
  LET st0 == [console |-> console, channel |-> channel]
      st1 == ConsoleLog(st0, i, 133, "Error during OpenAI API call:")
  IN /\ console' = st1.console
     /\ channel' = [st1.channel EXCEPT ![i] = Append(@, End(CatchResult(message)))]
     /\ pc' = [pc EXCEPT ![i] = "done"]

\* Lines 88-117: fetch settles.  A rejection is caught; a response is kept
\* and its body awaited (as text when not ok, as JSON otherwise).
FetchSettles(i, resp) ==
  /\ pc[i] = "fetch"
  /\ IF resp.t = "neterr" THEN
       /\ Catch(i, "fetch failed")
       /\ UNCHANGED response
     ELSE
       /\ response' = [response EXCEPT ![i] = resp]
       /\ pc' = [pc EXCEPT ![i] = IF resp.ok THEN "json" ELSE "text"]
       /\ UNCHANGED <<console, channel>>
  /\ UNCHANGED <<inputs, timers, backendCalls, fabricated, medicalTool>>

\* Lines 118-119: the error body has been read; the Error thrown is caught.
TextRead(i) ==
  /\ pc[i] = "text"
  /\ Catch(i, "OpenAI API error: " \o response[i].status \o " " \o response[i].text)
  /\ UNCHANGED <<inputs, timers, backendCalls, fabricated, medicalTool, response>>

\* Lines 122-139: the body has been read; it is parsed and returned, or the
\* exception is caught.
JsonRead(i) ==
  /\ pc[i] = "json"
  /\ LET parsed == ParseBody(response[i].body)
     IN IF parsed.thrown THEN Catch(i, parsed.message)
        ELSE
          LET st0 == [console |-> console, channel |-> channel]
              st1 == ConsoleLog(st0, i, 129, "OpenAI analysis result:")
          IN /\ console' = st1.console
             /\ channel' = [st1.channel EXCEPT ![i] = Append(@, End(parsed.value))]
             /\ pc' = [pc EXCEPT ![i] = "done"]
  /\ UNCHANGED <<inputs, timers, backendCalls, fabricated, medicalTool, response>>

\* The real block is checked one request at a time (concurrent requests are
\* the subject of Spec).
NextReal ==
  \/ \E inp \in InputVals : ExecuteReal(1, inp)
  \/ \E resp \in ResponseVals : FetchSettles(1, resp)
  \/ TextRead(1)
  \/ JsonRead(1)

SpecReal == Init /\ [][NextReal]_vars

\* ---------------------------------------------------- vocabulary of the claims

\* The terminal events among the events of one invocation.
Terminals(i) == SelectSeq(channel[i], IsTerminal)

\* Invocation i has returned a result object to its caller.
Returned(i) == Len(channel[i]) > 0 /\ channel[i][Len(channel[i])].kind = "end"

\* Invocation i has failed with an exception.
Failed(i) == Len(channel[i]) > 0 /\ channel[i][Len(channel[i])].kind = "error"

\* The result object invocation i returned (where Returned(i)).
ResultOf(i) == channel[i][Len(channel[i])].result

\* The input is an object whose file is missing, whose file has no data, or
\* whose exam type is missing or empty.
InputIsMissing(inp) ==
  /\ inp.t = "obj"
  /\ \/ inp.file.t = "undef"
     \/ DataOf(inp.file) \in {Undefined, Str("")}
     \/ inp.examType \in {Undefined, Str("")}

\* The input carries base64 file data and a non-empty exam type.
InputIsComplete(inp) ==
  /\ inp.t = "obj"
  /\ inp.file.t = "obj"
  /\ inp.file.data.t = "str" /\ inp.file.data.v # ""
  /\ inp.examType \notin {Undefined, Str("")}

\* Invocation i is waiting on an armed timer.
Armed(i) == \E k \in 1..Len(timers) : timers[k] = i

\* The console lines written by invocation i, in order.
LinesOf(i) ==
  LET mine(e) == e.inv = i
      s == SelectSeq(console, mine)
  IN [k \in 1..Len(s) |-> s[k].line]

\* ------------------------------------------------------------------ claims

\* At most one terminal event per invocation, exactly one once it is done,
\* none while it is suspended (and then its timer is armed), and no event
\* after the terminal one.
OneTerminal ==
  \A i \in Inv :
    /\ Len(Terminals(i)) <= 1
    /\ (pc[i] = "done") = (Len(Terminals(i)) = 1)
    /\ (pc[i] = "delay") => Armed(i)
    /\ (pc[i] = "idle") => (channel[i] = <<>> /\ ~Armed(i))
    /\ \A k \in 1..Len(channel[i]) : IsTerminal(channel[i][k]) => k = Len(channel[i])

\* C1: every invocation produces exactly one terminal outcome, a returned
\* result (end) or an exception (error): never two, never both, nothing after
\* the terminal event, and never neither: a started invocation gets done.
C1_ExactlyOneTerminal ==
  /\ []OneTerminal
  /\ \A i \in Inv : (pc[i] = "delay") ~> (pc[i] = "done" /\ Len(Terminals(i)) = 1)

\* C1 witness: one invocation has returned a fabricated verdict after its
\* delay and another has failed with an exception.
C1_Witness ==
  \E i, j \in Inv :
    /\ Returned(i) /\ fabricated[i] = 1 /\ Len(Terminals(i)) = 1
    /\ Failed(j) /\ Len(Terminals(j)) = 1

C3_MissingInputNoBackend ==
  \A i \in Inv :
    InputIsMissing(inputs[i]) =>
      /\ backendCalls[i] = 0
      /\ fabricated[i] = 0
      /\ ~Armed(i)
      /\ pc[i] # "delay"
      /\ \A k \in 1..Len(LinesOf(i)) : LinesOf(i)[k] = 51

\* C3 witness: an invocation without exam type has finished with no backend
\* call while another, complete one is inside its backend step.
C3_Witness ==
  \E i, j \in Inv :
    /\ InputIsMissing(inputs[i]) /\ inputs[i].file.t = "obj"
    /\ inputs[i].file.data = Str("QUJD")
    /\ pc[i] = "done" /\ backendCalls[i] = 0
    /\ pc[j] = "delay" /\ backendCalls[j] = 1

\* C4: every returned result has a probability p with 0 <= p <= 1.
C4_ProbabilityInUnitInterval ==
  \A i \in Inv :
    Returned(i) => (0 <= ResultOf(i).probability /\ ResultOf(i).probability <= ProbDen)

\* C4 witness: a fabricated verdict with the largest drawable probability
\* and a missing-input result with probability 0.
C4_Witness ==
  \E i, j \in Inv :
    /\ Returned(i) /\ fabricated[i] = 1 /\ ResultOf(i).probability = ProbDen - 1
    /\ Returned(j) /\ InputIsMissing(inputs[j]) /\ ResultOf(j).probability = 0

\* C5: every returned result carries a non-empty reasoning string, on the
\* mock path and on the missing-input path.
C5_ReasoningNonEmpty ==
  \A i \in Inv :
    Returned(i) => (ResultOf(i).reasoning # "" /\ Len(ResultOf(i).reasoning) > 0)

\* C5 witness: a fabricated verdict for a numeric exam type and a
\* missing-input result, both returned.
C5_Witness ==
  \E i, j \in Inv :
    /\ Returned(i) /\ fabricated[i] = 1 /\ inputs[i].examType = Num("7")
    /\ Returned(j) /\ fabricated[j] = 0 /\ InputIsMissing(inputs[j])

\* C6: an invocation performs the backend step at most once: one delay, one
\* fabrication, never armed twice, and a finished invocation (failed or not)
\* is not armed again.
C6_AtMostOneBackendCall ==
  \A i \in Inv :
    /\ backendCalls[i] <= 1
    /\ fabricated[i] <= backendCalls[i]
    /\ Cardinality({k \in 1..Len(timers) : timers[k] = i}) <= 1
    /\ (pc[i] = "done") => ~Armed(i)
    /\ Failed(i) => backendCalls[i] = 0

\* C6 witness: one invocation finished after exactly one backend step and
\* another failed without any.
C6_Witness ==
  \E i, j \in Inv :
    /\ pc[i] = "done" /\ backendCalls[i] = 1 /\ fabricated[i] = 1
    /\ Failed(j) /\ backendCalls[j] = 0

C8_Isolation ==
  /\ [](\A i \in Inv :
          (Returned(i) /\ fabricated[i] > 0) =>
            ResultOf(i).reasoning =
              MockReasoning(2 * ResultOf(i).probability > ProbDen, inputs[i].examType))
  /\ [][\A i \in Inv : pc[i] # "idle" => inputs'[i] = inputs[i]]_vars
  /\ [][medicalTool' = medicalTool]_vars

\* C8 witness: two invocations with different exam types were suspended at
\* the same time (the second wrote line 67 before the first wrote line 80)
\* and both have returned.
C8_Witness ==
  \E i, j \in Inv :
    /\ i # j
    /\ Returned(i) /\ fabricated[i] = 1
    /\ Returned(j) /\ fabricated[j] = 1
    /\ inputs[i].examType = Str("x-ray")
    /\ inputs[j].examType = Str("blood test report")
    /\ \E a, b \in 1..Len(console) :
         /\ a < b
         /\ console[a].inv = j /\ console[a].line = 67
         /\ console[b].inv = i /\ console[b].line = 80

\* C10: in every returned result is_verified is true exactly when the
\* probability is strictly greater than 0.5.
C10_VerifiedIffAboveHalf ==
  \A i \in Inv :
    Returned(i) => (ResultOf(i).is_verified = (2 * ResultOf(i).probability > ProbDen))

\* C10 witness: a fabricated verdict with probability exactly 0.5 and
\* is_verified false, one above 0.5 with is_verified true.
C10_Witness ==
  \E i, j \in Inv :
    /\ Returned(i) /\ fabricated[i] = 1
    /\ 2 * ResultOf(i).probability = ProbDen /\ ~ResultOf(i).is_verified
    /\ Returned(j) /\ fabricated[j] = 1
    /\ 2 * ResultOf(j).probability > ProbDen /\ ResultOf(j).is_verified

\* The message content invocation i received (where it received one).
HasContent(i) ==
  /\ response[i].t = "http" /\ response[i].ok
  /\ response[i].body.t = "json" /\ response[i].body.choices # <<>>
  /\ response[i].body.choices[1].t = "str"

ContentOf(i) == response[i].body.choices[1].toks

\* toks without the tokens in drop.
Without(toks, drop) == LET keep(x) == x \notin drop IN SelectSeq(toks, keep)

\* The content as it stands is valid JSON: one object, white space aside.
IsValidJSON(toks) == Without(toks, {"sp"}) = <<"obj">>

\* The content is valid JSON once its fences are taken out.
IsValidJSONUnfenced(toks) == Without(toks, {"sp", "fo", "fc"}) = <<"obj">>

====
